---- MODULE Spec2Model ----
(***************************************************************************)
(* A model of the mkmover simulation kernel: agents and locations with    *)
(* the move operation, the layered Markov mover with its compiled         *)
(* outcome tables, the heap-backed event queue and the event handlers.    *)
(*                                                                         *)
(* Times are counted in half units (0.5 is 1, 1.0 is 2) and weights in    *)
(* tenths (0.7 is 7), so that both stay integers.                         *)
(***************************************************************************)
EXTENDS Integers, Sequences, FiniteSets, Bags, TLC

\* agents, locations, t, event_queue, event_map: the fields of ModelState
\* move_probs: the ChainMap of the mover, the newest map first
\* ret: the last call, as its caller saw it
\* script, pc: a list of moves made one by one, and how many are made
\* dispatched: history variable, the events popped since the last add_event
\* table: the outcome map handed to CompiledOutcomes
\* until: the time horizon of a run, <<>> for None
VARIABLES agents, locations, t, event_queue, event_map, move_probs,
          ret, script, pc, dispatched, table, until

vars == <<agents, locations, t, event_queue, event_map, move_probs,
          ret, script, pc, dispatched, table, until>>

(* ------------------------------ bounds -------------------------------- *)

\* largest maxhist an agent is created with
MaxHist == 2
\* most moves recorded by an agent whose history has no maximum
MaxMoves == 4
\* most events pending in the queue at once
MaxQueue == 3
\* event times are 1..MaxTime (half units)
MaxTime == 2
\* most maps chained in the mover (the ChainMap's own first map included)
MaxLayers == 3
MaxWeight == 2

(* ------------------------------ values -------------------------------- *)

AgentIds == {"Harold", "victim"}
LocIds == {"A", "B", "C"}
\* the locations used where two are enough
EntityLocs == {"A", "B"}
\* Agent.location before the first move
None == "None"

RECURSIVE Reverse(_)
Reverse(s) == IF s = <<>> THEN <<>> ELSE Append(Reverse(Tail(s)), Head(s))

(* ----------------------------- entities ------------------------------- *)

\* deque(maxlen=maxhist): maxlen is <<>> for None and <<m>> for m
deque(maxlen) == [items |-> <<>>, maxlen |-> maxlen]

\* deque.append as it would be if a full deque refused the new item
deque_append_dropnewest(d, x) ==
    IF d.maxlen # <<>> /\ Len(d.items) >= d.maxlen[1]
    THEN d
    ELSE [d EXCEPT !.items = Append(@, x)]

\* deque.append: a full bounded deque discards the item at its left end
deque_append(d, x) ==
    IF d.maxlen = <<>> THEN [d EXCEPT !.items = Append(@, x)]
    ELSE IF d.maxlen[1] = 0 THEN d
    ELSE IF Len(d.items) >= d.maxlen[1]
         THEN [d EXCEPT !.items = Append(Tail(@), x)]
         ELSE [d EXCEPT !.items = Append(@, x)]

\* MemoryAgent(name, maxhist)
MemoryAgent(maxhist) ==
    [infected |-> "False", location |-> None, history |-> deque(maxhist)]

\* MemoryAgent.move_to as it would be if the history were left as it is
move_to_nohistory(agent, location) ==
    [agent EXCEPT !.location = location]

\* MemoryAgent.move_to
move_to(agent, location) ==
    [agent EXCEPT !.location = location,
                  !.history = deque_append(@, location)]

\* MemoryAgent.state as it would be without reversed()
state_unreversed(agent) == <<agent.infected>> \o agent.history.items

\* MemoryAgent.state: (infected, *reversed(history))
state(agent) == <<agent.infected>> \o Reverse(agent.history.items)

\* Location(name).occupants
Location == {}

(* ------------------------- ModelState: entities ------------------------ *)

\* what the caller of the last operation saw: the call, its arguments
\* (time is 0 for a call that takes none) and the exception it raised
Ret(op, agent, arg, exc) ==
    [op |-> op, agent |-> agent, arg |-> arg, exc |-> exc, time |-> 0]

\* ModelState.move as it would be without the discard from the old location
move_keepold(ags, locs, agent, location) ==
    IF agent \notin DOMAIN ags \/ location \notin DOMAIN locs
    THEN [agents |-> ags, locations |-> locs, exc |-> "KeyError"]
    ELSE [agents |-> [ags EXCEPT ![agent] = move_to(@, location)],
          locations |-> [locs EXCEPT ![location] = @ \cup {agent}],
          exc |-> "ok"]

\* ModelState.move as it would be if the agent left its old location
\* before the destination is looked up
move_discardfirst(ags, locs, agent, location) ==
    IF agent \notin DOMAIN ags
    THEN [agents |-> ags, locations |-> locs, exc |-> "KeyError"]
    ELSE LET old == ags[agent].location
             locs1 == IF old \in DOMAIN locs
                      THEN [locs EXCEPT ![old] = @ \ {agent}]
                      ELSE locs
         IN  IF location \notin DOMAIN locs
             THEN [agents |-> ags, locations |-> locs1, exc |-> "KeyError"]
             ELSE [agents |-> [ags EXCEPT ![agent] = move_to(@, location)],
                   locations |-> [locs1 EXCEPT ![location] = @ \cup {agent}],
                   exc |-> "ok"]

\* ModelState.move: the state after the call and the exception it raised
move(ags, locs, agent, location) ==
    IF agent \notin DOMAIN ags \/ location \notin DOMAIN locs
    THEN [agents |-> ags, locations |-> locs, exc |-> "KeyError"]
    ELSE LET old == ags[agent].location
             locs1 == IF old \in DOMAIN locs
                      THEN [locs EXCEPT ![old] = @ \ {agent}]
                      ELSE locs
         IN  [agents |-> [ags EXCEPT ![agent] = move_to(@, location)],
              locations |-> [locs1 EXCEPT ![location] = @ \cup {agent}],
              exc |-> "ok"]

\* the history of an agent created without a maximum is cut off at MaxMoves
HistoryRoom(agent) ==
    agent \in DOMAIN agents =>
        Len(agents[agent].history.items) < MaxMoves

UnchangedQueue == UNCHANGED <<t, event_queue, event_map, dispatched>>
UnchangedScript == UNCHANGED <<script, pc, table, until>>

\* ModelState.add_agent, for a new MemoryAgent whose infected is set to s
add_agent(name, maxhist, s) ==
    /\ agents' = [a \in DOMAIN agents \cup {name} |->
                    IF a = name
                    THEN [MemoryAgent(maxhist) EXCEPT !.infected = s]
                    ELSE agents[a]]
    /\ ret' = Ret("add_agent", name, "-", "ok")
    /\ UNCHANGED <<locations, move_probs>>
    /\ UnchangedQueue /\ UnchangedScript

\* ModelState.add_location, for a new Location
add_location(name) ==
    /\ locations' = [l \in DOMAIN locations \cup {name} |->
                       IF l = name THEN Location ELSE locations[l]]
    /\ ret' = Ret("add_location", "-", name, "ok")
    /\ UNCHANGED <<agents, move_probs>>
    /\ UnchangedQueue /\ UnchangedScript

\* a call of ModelState.move
Move(agent, location) ==
    /\ HistoryRoom(agent)
    /\ LET r == move(agents, locations, agent, location)
       IN  /\ agents' = r.agents
           /\ locations' = r.locations
           /\ ret' = Ret("move", agent, location, r.exc)
    /\ UNCHANGED move_probs
    /\ UnchangedQueue /\ UnchangedScript

MaxHistChoices == {<<>>} \cup {<<m>> : m \in 1..MaxHist}

NoAgents == [a \in {} |-> MemoryAgent(<<>>)]
NoLocations == [l \in {} |-> Location]
NoEvents == [a \in {} |-> {}]
\* MarkovMover(): ChainMap() holds one empty map
EmptyChain == << [k \in {} |-> 0] >>

\* ModelState.__init__, with a MarkovMover()
InitState ==
    /\ agents = NoAgents
    /\ locations = NoLocations
    /\ t = 0
    /\ event_queue = <<>>
    /\ event_map = NoEvents
    /\ move_probs = EmptyChain
    /\ ret = Ret("init", "-", "-", "ok")
    /\ script = <<>>
    /\ pc = 0
    /\ dispatched = <<>>
    /\ table = <<>>
    /\ until = <<>>

NextEntities ==
    \/ \E a \in AgentIds, m \in MaxHistChoices : add_agent(a, m, "S")
    \/ \E l \in EntityLocs : add_location(l)
    \/ \E a \in AgentIds, l \in EntityLocs : Move(a, l)

SpecEntities == InitState /\ [][NextEntities]_vars

(* --------------------------- CompiledOutcomes -------------------------- *)

\* an outcome map is the sequence of its (outcome, weight) items, in
\* insertion order

\* CompiledOutcomes.__init__ before compile
NoOutcomes == [outcomes |-> <<>>, cdf |-> <<>>, total |-> 0]

\* CompiledOutcomes.compile as it would be if each weight, not the running
\* total, were appended to cdf
RECURSIVE compile_weights(_, _)
compile_weights(self, pdict) ==
    IF pdict = <<>> THEN self
    ELSE LET k == Head(pdict)[1]
             v == Head(pdict)[2]
         IN  compile_weights([outcomes |-> Append(self.outcomes, k),
                              cdf |-> Append(self.cdf, v),
                              total |-> self.total + v],
                             Tail(pdict))

\* CompiledOutcomes.compile
RECURSIVE compile(_, _)
compile(self, pdict) ==
    IF pdict = <<>> THEN self
    ELSE LET k == Head(pdict)[1]
             v == Head(pdict)[2]
             total == self.total + v
         IN  compile([outcomes |-> Append(self.outcomes, k),
                      cdf |-> Append(self.cdf, total),
                      total |-> total],
                     Tail(pdict))

\* CompiledOutcomes(data)
CompiledOutcomes(data) == compile(NoOutcomes, data)

\* bisect.bisect (bisect_right) on a[lo:hi], indices counted from 0
RECURSIVE bisect_loop(_, _, _, _)
bisect_loop(a, x, lo, hi) ==
    IF lo < hi
    THEN LET mid == (lo + hi) \div 2
         IN  IF x < a[mid + 1]
             THEN bisect_loop(a, x, lo, mid)
             ELSE bisect_loop(a, x, mid + 1, hi)
    ELSE lo

\* bisect as it would be if it were bisect_left: the insertion point
\* before the entries equal to x
bisect_left(a, x) == Cardinality({i \in 1..Len(a) : a[i] < x})

bisect(a, x) == bisect_loop(a, x, 0, Len(a))

\* the values random.random() * self.total takes: with whole weights every
\* real of [k, k+1) selects as k does
draws(self) == IF self.total > 0 THEN 0..(self.total - 1) ELSE {0}

\* CompiledOutcomes.weighted_choice for the draw x
weighted_choice(self, x) ==
    LET i == bisect(self.cdf, x)
    IN  IF i < Len(self.outcomes)
        THEN [val |-> self.outcomes[i + 1], exc |-> "ok"]
        ELSE [val |-> "-", exc |-> "IndexError"]

(* ------------------------------ MarkovMover ---------------------------- *)

\* MarkovMover.add_move_probs: the chain with the compiled map in front
new_child(chain, new_map) ==
    << [key \in DOMAIN new_map |-> CompiledOutcomes(new_map[key])] >> \o chain

\* ChainMap.__getitem__ as it would be if the oldest map were searched first
RECURSIVE chain_get_oldest(_, _)
chain_get_oldest(chain, key) ==
    IF chain = <<>> THEN [found |-> FALSE, value |-> NoOutcomes]
    ELSE IF key \in DOMAIN chain[Len(chain)]
         THEN [found |-> TRUE, value |-> chain[Len(chain)][key]]
         ELSE chain_get_oldest(SubSeq(chain, 1, Len(chain) - 1), key)

IsPrefix(p, s) == Len(p) <= Len(s) /\ SubSeq(s, 1, Len(p)) = p

\* ChainMap.__getitem__ as it would be if a map holding a prefix of the
\* key matched
RECURSIVE chain_get_prefix(_, _)
chain_get_prefix(chain, key) ==
    IF chain = <<>> THEN [found |-> FALSE, value |-> NoOutcomes]
    ELSE LET ks == {k \in DOMAIN Head(chain) : IsPrefix(k, key)}
         IN  IF ks # {}
             THEN [found |-> TRUE,
                   value |-> Head(chain)[CHOOSE k \in ks :
                                           \A j \in ks : Len(j) <= Len(k)]]
             ELSE chain_get_prefix(Tail(chain), key)

\* ChainMap.__getitem__: the first map of the chain holding the key
RECURSIVE chain_get(_, _)
chain_get(chain, key) ==
    IF chain = <<>> THEN [found |-> FALSE, value |-> NoOutcomes]
    ELSE IF key \in DOMAIN Head(chain)
         THEN [found |-> TRUE, value |-> Head(chain)[key]]
         ELSE chain_get(Tail(chain), key)

\* the move_probs fixture of the tests
MoveProbsFixture ==
    (<<"S", "A">> :> << <<"B", 7>>, <<"C", 3>> >>) @@
    (<<"S", "B">> :> << <<"A", 4>>, <<"C", 6>> >>) @@
    (<<"S", "C">> :> << <<"A", 8>>, <<"B", 2>> >>) @@
    (<<"S", "B", "A">> :> << <<"A", 2>>, <<"C", 8>> >>) @@
    (<<"S", "C", "A">> :> << <<"A", 4>>, <<"B", 6>> >>) @@
    (<<"S", "A", "B">> :> << <<"B", 1>>, <<"C", 9>> >>) @@
    (<<"S", "C", "B">> :> << <<"A", 9>>, <<"B", 1>> >>) @@
    (<<"S", "A", "C">> :> << <<"B", 7>>, <<"C", 3>> >>) @@
    (<<"S", "B", "C">> :> << <<"A", 8>>, <<"C", 2>> >>)

\* a call of MarkovMover.next_location(agent.state)
NextLocation(agent) ==
    /\ agent \in DOMAIN agents
    /\ LET r == chain_get(move_probs, state(agents[agent]))
       IN  IF ~r.found
           THEN ret' = Ret("next_location", agent, "-", "KeyError")
           ELSE \E x \in draws(r.value) :
                  LET c == weighted_choice(r.value, x)
                  IN  ret' = Ret("next_location", agent, c.val, c.exc)
    /\ UNCHANGED <<agents, locations, move_probs>>
    /\ UnchangedQueue /\ UnchangedScript

(* ------------------- a scripted sequence of moves ---------------------- *)

Scripts == UNION {[1..n -> LocIds] : n \in 0..MaxMoves}

\* the fixtures of the tests: harold with infected 'S', the three
\* locations, the mover; then the moves of `script`, one by one
InitHistory ==
    /\ \E m \in MaxHistChoices :
         agents = ("Harold" :> [MemoryAgent(m) EXCEPT !.infected = "S"])
    /\ locations = [l \in LocIds |-> Location]
    /\ t = 0
    /\ event_queue = <<>>
    /\ event_map = NoEvents
    /\ move_probs = new_child(EmptyChain, MoveProbsFixture)
    /\ ret = Ret("init", "-", "-", "ok")
    /\ script \in Scripts
    /\ pc = 0
    /\ dispatched = <<>>
    /\ table = <<>>
    /\ until = <<>>

\* for loc in script: abm.move(harold.id, loc)
ScriptedMove ==
    /\ pc < Len(script)
    /\ LET r == move(agents, locations, "Harold", script[pc + 1])
       IN  /\ agents' = r.agents
           /\ locations' = r.locations
           /\ ret' = Ret("move", "Harold", script[pc + 1], r.exc)
    /\ pc' = pc + 1
    /\ UNCHANGED <<move_probs, script, table, until>>
    /\ UnchangedQueue

NextHistory ==
    \/ ScriptedMove
    \/ NextLocation("Harold")

SpecHistory == InitHistory /\ [][NextHistory]_vars

(* ------------------------------- events -------------------------------- *)

\* EventType: the members and their values (enum.auto())
EventType == [Move |-> 1, Infect |-> 2]

\* EventType.__lt__ as it would be with the comparison turned round
EventType_gt(self, other) == EventType[self] > EventType[other]

\* EventType.__lt__
EventType_lt(self, other) == EventType[self] < EventType[other]

\* str.__lt__ on the agent ids
StrRank == [Harold |-> 1, victim |-> 2]
str_lt(a, b) == StrRank[a] < StrRank[b]

\* Event(t, event_type, agent)
Event(time, event_type, agent) ==
    [t |-> time, event_type |-> event_type, agent |-> agent]

\* Event.__lt__ (dataclass order=True): the fields compared as a tuple
Event_lt(self, other) ==
    IF self.t # other.t THEN self.t < other.t
    ELSE IF self.event_type # other.event_type
         THEN EventType_lt(self.event_type, other.event_type)
         ELSE str_lt(self.agent, other.agent)

(* ------------------------------- HeapList ------------------------------ *)

\* heapq._siftdown: positions are counted from 0, heap[pos + 1] is the item
RECURSIVE siftdown(_, _, _, _)
siftdown(heap, startpos, pos, newitem) ==
    IF pos > startpos
    THEN LET parentpos == (pos - 1) \div 2
             parent == heap[parentpos + 1]
         IN  IF Event_lt(newitem, parent)
             THEN siftdown([heap EXCEPT ![pos + 1] = parent],
                           startpos, parentpos, newitem)
             ELSE [heap EXCEPT ![pos + 1] = newitem]
    ELSE [heap EXCEPT ![pos + 1] = newitem]

\* heapq._siftup: the smaller child moves up until a leaf is reached
RECURSIVE siftup(_, _, _, _)
siftup(heap, startpos, pos, newitem) ==
    LET endpos == Len(heap)
        childpos == 2 * pos + 1
        rightpos == childpos + 1
    IN  IF childpos < endpos
        THEN LET c == IF rightpos < endpos
                         /\ ~Event_lt(heap[childpos + 1], heap[rightpos + 1])
                      THEN rightpos ELSE childpos
             IN  siftup([heap EXCEPT ![pos + 1] = heap[c + 1]],
                        startpos, c, newitem)
        ELSE siftdown([heap EXCEPT ![pos + 1] = newitem],
                      startpos, pos, newitem)

\* HeapList.add as it would be with a plain append
append_only(heap, item) == Append(heap, item)

\* HeapList.add: heapq.heappush
heappush(heap, item) ==
    siftdown(Append(heap, item), 0, Len(heap), item)

\* HeapList.pop as it would be with list.pop()
pop_last(heap) ==
    [item |-> heap[Len(heap)], heap |-> SubSeq(heap, 1, Len(heap) - 1)]

\* HeapList.pop: heapq.heappop on a heap that is not empty
heappop(heap) ==
    LET lastelt == heap[Len(heap)]
        rest == SubSeq(heap, 1, Len(heap) - 1)
    IN  IF rest # <<>>
        THEN [item |-> rest[1], heap |-> siftup(rest, 0, 0, lastelt)]
        ELSE [item |-> lastelt, heap |-> rest]

(* ------------------------- ModelState: events -------------------------- *)

Times == 1..MaxTime
EventTypes == {"Move", "Infect"}
\* the agents events are scheduled for
EventAgents == {"Harold"}

UnchangedEntities == UNCHANGED <<agents, locations, move_probs>>

\* self.event_map[agent].add(event) on the defaultdict(set)
event_map_add(emap, agent, event) ==
    [a \in DOMAIN emap \cup {agent} |->
       IF a = agent
       THEN (IF a \in DOMAIN emap THEN emap[a] ELSE {}) \cup {event}
       ELSE emap[a]]

\* ModelState.add_event
add_event(time, event_type, agent) ==
    /\ Len(event_queue) < MaxQueue
    /\ LET event == Event(time, event_type, agent)
       IN  /\ event_queue' = heappush(event_queue, event)
           /\ event_map' = event_map_add(event_map, agent, event)
    /\ dispatched' = <<>>
    /\ ret' = [Ret("add_event", agent, event_type, "ok") EXCEPT !.time = time]
    /\ UNCHANGED t
    /\ UnchangedEntities /\ UnchangedScript

Unchanged(ags, locs, exc) == [agents |-> ags, locations |-> locs, exc |-> exc]

\* ABM.do_next_move: every state the call can end in, one per draw
do_next_move(ags, locs, chain, agent) ==
    IF agent \notin DOMAIN ags THEN {Unchanged(ags, locs, "KeyError")}
    ELSE LET r == chain_get(chain, state(ags[agent]))
         IN  IF ~r.found THEN {Unchanged(ags, locs, "KeyError")}
             ELSE {LET c == weighted_choice(r.value, x)
                   IN  IF c.exc # "ok" THEN Unchanged(ags, locs, c.exc)
                       ELSE move(ags, locs, agent, c.val)
                   : x \in draws(r.value)}

\* ABM.do_potential_infect as it would be if the first sampled occupant
\* were the candidate even when it is the agent itself
do_potential_infect_noexclude(ags, locs, agent) ==
    IF agent \notin DOMAIN ags THEN {Unchanged(ags, locs, "KeyError")}
    ELSE LET loc == ags[agent].location
         IN  IF loc \notin DOMAIN locs THEN {Unchanged(ags, locs, "KeyError")}
             ELSE LET targets == locs[loc]
                  IN  IF Cardinality(targets) < 2
                      THEN {Unchanged(ags, locs, "ok")}
                      ELSE {LET cand == cands[1]
                            IN  IF cand \notin DOMAIN ags
                                THEN Unchanged(ags, locs, "KeyError")
                                ELSE IF ags[cand].infected = "S"
                                THEN [agents |-> [ags EXCEPT ![cand].infected = "I"],
                                      locations |-> locs, exc |-> "ok"]
                                ELSE Unchanged(ags, locs, "ok")
                            : cands \in {c \in targets \X targets : c[1] # c[2]}}

\* ABM.do_potential_infect as it would be if the candidate were infected
\* whatever its state
do_potential_infect_always(ags, locs, agent) ==
    IF agent \notin DOMAIN ags THEN {Unchanged(ags, locs, "KeyError")}
    ELSE LET loc == ags[agent].location
         IN  IF loc \notin DOMAIN locs THEN {Unchanged(ags, locs, "KeyError")}
             ELSE LET targets == locs[loc]
                  IN  IF Cardinality(targets) < 2
                      THEN {Unchanged(ags, locs, "ok")}
                      ELSE {LET cand == IF cands[1] = agent
                                        THEN cands[2] ELSE cands[1]
                            IN  IF cand \notin DOMAIN ags
                                THEN Unchanged(ags, locs, "KeyError")
                                ELSE [agents |-> [ags EXCEPT ![cand].infected = "I"],
                                      locations |-> locs, exc |-> "ok"]
                            : cands \in {c \in targets \X targets : c[1] # c[2]}}

\* ABM.do_potential_infect: every state the call can end in, one per sample
do_potential_infect(ags, locs, agent) ==
    IF agent \notin DOMAIN ags THEN {Unchanged(ags, locs, "KeyError")}
    ELSE LET loc == ags[agent].location
         IN  IF loc \notin DOMAIN locs THEN {Unchanged(ags, locs, "KeyError")}
             ELSE LET targets == locs[loc]
                  IN  IF Cardinality(targets) < 2
                      THEN {Unchanged(ags, locs, "ok")}
                      ELSE {LET cand == IF cands[1] = agent
                                        THEN cands[2] ELSE cands[1]
                            IN  IF cand \notin DOMAIN ags
                                THEN Unchanged(ags, locs, "KeyError")
                                ELSE IF ags[cand].infected = "S"
                                THEN [agents |-> [ags EXCEPT ![cand].infected = "I"],
                                      locations |-> locs, exc |-> "ok"]
                                ELSE Unchanged(ags, locs, "ok")
                            : cands \in {c \in targets \X targets : c[1] # c[2]}}

\* ABM.handle_next_event's dispatch as it would be with the two handlers
\* exchanged
handler_results_swapped(ags, locs, chain, event) ==
    IF event.event_type = "Move"
    THEN do_potential_infect(ags, locs, event.agent)
    ELSE do_next_move(ags, locs, chain, event.agent)

\* ABM.handle_next_event's dispatch on the event type: every state the
\* handler can end in
handler_results(ags, locs, chain, event) ==
    IF event.event_type = "Move"
    THEN do_next_move(ags, locs, chain, event.agent)
    ELSE do_potential_infect(ags, locs, event.agent)

\* ABM.handle_next_event with an event in the queue, as it would be if the
\* next event were read and left in the queue
dispatch_next_event_peek ==
    /\ event_queue # <<>>
    /\ LET next_event == event_queue[1]
       IN  /\ HistoryRoom(next_event.agent)
           /\ t' = next_event.t
           /\ \E r \in handler_results(agents, locations, move_probs,
                                        next_event) :
                 /\ agents' = r.agents
                 /\ locations' = r.locations
                 /\ ret' = [Ret("handle_next_event", next_event.agent,
                                next_event.event_type, r.exc)
                             EXCEPT !.time = next_event.t]
    /\ UNCHANGED <<event_queue, dispatched, event_map, move_probs>>
    /\ UnchangedScript

\* ABM.handle_next_event with an event in the queue
dispatch_next_event ==
    /\ event_queue # <<>>
    /\ \E p \in {heappop(event_queue)} :
         \E next_event \in {p.item} :
           /\ HistoryRoom(next_event.agent)
           /\ event_queue' = p.heap
           /\ t' = next_event.t
           /\ dispatched' = Append(dispatched, next_event)
           /\ \E r \in handler_results(agents, locations, move_probs,
                                        next_event) :
                 /\ agents' = r.agents
                 /\ locations' = r.locations
                 /\ ret' = [Ret("handle_next_event", next_event.agent,
                                next_event.event_type, r.exc)
                             EXCEPT !.time = next_event.t]
    /\ UNCHANGED <<event_map, move_probs>>
    /\ UnchangedScript

\* ABM.handle_next_event as it would be if the clock were reset before
\* the pop
handle_next_event_reset ==
    IF event_queue = <<>>
    THEN /\ ret' = Ret("handle_next_event", "-", "-", "IndexError")
         /\ t' = 0
         /\ UNCHANGED <<event_queue, event_map, dispatched>>
         /\ UnchangedEntities /\ UnchangedScript
    ELSE dispatch_next_event

\* ABM.handle_next_event: the pop of an empty queue raises IndexError
handle_next_event ==
    IF event_queue = <<>>
    THEN /\ ret' = Ret("handle_next_event", "-", "-", "IndexError")
         /\ UNCHANGED <<t, event_queue, event_map, dispatched>>
         /\ UnchangedEntities /\ UnchangedScript
    ELSE dispatch_next_event

\* the abm fixture of the tests: harold (maxhist 2, infected 'S') moved to A
InitQueue ==
    /\ LET ags == ("Harold" :> [MemoryAgent(<<2>>) EXCEPT !.infected = "S"])
           r == move(ags, [l \in LocIds |-> Location], "Harold", "A")
       IN  agents = r.agents /\ locations = r.locations
    /\ t = 0
    /\ event_queue = <<>>
    /\ event_map = NoEvents
    /\ move_probs = new_child(EmptyChain, MoveProbsFixture)
    /\ ret = Ret("init", "-", "-", "ok")
    /\ script = <<>>
    /\ pc = 0
    /\ dispatched = <<>>
    /\ table = <<>>
    /\ until = <<>>

NextQueue ==
    \/ \E time \in Times, et \in EventTypes, a \in EventAgents :
         add_event(time, et, a)
    \/ handle_next_event
    \/ \E l \in LocIds : Move("Harold", l)

SpecQueue == InitQueue /\ [][NextQueue]_vars

(* ------------------------- the mover's layers -------------------------- *)

\* the maps handed to add_move_probs: the 1-history and the 2-history
\* entries of the fixture, and two maps defining ('S', 'A') again
Layers ==
    [hist1 |-> (<<"S", "A">> :> << <<"B", 7>>, <<"C", 3>> >>) @@
               (<<"S", "B">> :> << <<"A", 4>>, <<"C", 6>> >>),
     hist2 |-> (<<"S", "B", "A">> :> << <<"A", 2>>, <<"C", 8>> >>) @@
               (<<"S", "A", "B">> :> << <<"B", 1>>, <<"C", 9>> >>),
     again |-> (<<"S", "A">> :> << <<"B", 5>>, <<"C", 5>> >>),
     stay  |-> (<<"S", "A">> :> << <<"A", 1>>, <<"B", 0>> >>) @@
               (<<"S", "A", "A">> :> << <<"C", 1>> >>)]

LayerNames == DOMAIN Layers

\* a call of MarkovMover.add_move_probs
add_move_probs(name) ==
    /\ Len(move_probs) < MaxLayers
    /\ move_probs' = new_child(move_probs, Layers[name])
    /\ ret' = Ret("add_move_probs", "-", name, "ok")
    /\ UNCHANGED <<agents, locations>>
    /\ UnchangedQueue /\ UnchangedScript

\* a call of ABM.do_next_move
DoNextMove(agent) ==
    /\ HistoryRoom(agent)
    /\ \E r \in do_next_move(agents, locations, move_probs, agent) :
         /\ agents' = r.agents
         /\ locations' = r.locations
         /\ ret' = Ret("do_next_move", agent, "-", r.exc)
    /\ UNCHANGED move_probs
    /\ UnchangedQueue /\ UnchangedScript

\* harold (maxhist 2, infected 'S') and the three locations of the
\* fixtures, with a MarkovMover() that has no move probabilities yet
InitMover ==
    /\ agents = ("Harold" :> [MemoryAgent(<<2>>) EXCEPT !.infected = "S"])
    /\ locations = [l \in LocIds |-> Location]
    /\ t = 0
    /\ event_queue = <<>>
    /\ event_map = NoEvents
    /\ move_probs = EmptyChain
    /\ ret = Ret("init", "-", "-", "ok")
    /\ script = <<>>
    /\ pc = 0
    /\ dispatched = <<>>
    /\ table = <<>>
    /\ until = <<>>

NextMover ==
    \/ \E name \in LayerNames : add_move_probs(name)
    \/ DoNextMove("Harold")
    \/ \E l \in LocIds : Move("Harold", l)

SpecMover == InitMover /\ [][NextMover]_vars

(* ---------------------- a scheduled queue, drained --------------------- *)

\* the events add_event can be called with
Events ==
    {Event(time, et, a) : time \in Times, et \in EventTypes, a \in AgentIds}

\* up to MaxQueue calls of add_event, in order
Schedules == UNION {[1..n -> Events] : n \in 0..MaxQueue}

\* ModelState.add_event for each event of es in order: the queue and the
\* event_map after the calls
RECURSIVE add_events(_, _, _)
add_events(queue, emap, es) ==
    IF es = <<>> THEN [event_queue |-> queue, event_map |-> emap]
    ELSE add_events(heappush(queue, Head(es)),
                    event_map_add(emap, Head(es).agent, Head(es)),
                    Tail(es))

\* the state of test_infect_process: harold (maxhist 2) moved to A, then
\* C; victim (maxhist 1, infected 'S') moved to C; harold is 'S' or 'I'
Cohabitants(infected) ==
    LET ags == ("Harold" :> [MemoryAgent(<<2>>) EXCEPT !.infected = infected])
               @@ ("victim" :> [MemoryAgent(<<1>>) EXCEPT !.infected = "S"])
        r1 == move(ags, [l \in LocIds |-> Location], "Harold", "A")
        r2 == move(r1.agents, r1.locations, "victim", "C")
    IN  move(r2.agents, r2.locations, "Harold", "C")

\* the two agents at C and a queue filled by add_event
InitDrain ==
    /\ \E infected \in {"S", "I"} :
         /\ agents = Cohabitants(infected).agents
         /\ locations = Cohabitants(infected).locations
    /\ t = 0
    /\ \E es \in Schedules :
         /\ event_queue = add_events(<<>>, NoEvents, es).event_queue
         /\ event_map = add_events(<<>>, NoEvents, es).event_map
    /\ move_probs = new_child(EmptyChain, MoveProbsFixture)
    /\ ret = Ret("init", "-", "-", "ok")
    /\ script = <<>>
    /\ pc = 0
    /\ dispatched = <<>>
    /\ table = <<>>
    /\ until = <<>>

NextDrain == handle_next_event

SpecDrain == InitDrain /\ [][NextDrain]_vars

(* ------------------------------ the run loop --------------------------- *)

\* run(until): pc is 0 before the call, 1 in the loop, 2 once run has
\* returned, 3 once it has raised; times are in half units

Untils == {<<>>} \cup {<<u>> : u \in 0..MaxTime}

\* the last step of the loop raised
StepRaised == ret.op = "handle_next_event" /\ ret.exc # "ok"

\* the condition of the loop: the queue is non-empty and until is unset or
\* t < until
RunCondition ==
    /\ event_queue # <<>>
    /\ (IF until = <<>> THEN TRUE ELSE t < until[1])

\* the call of run(until)
run_call(u) ==
    /\ pc = 0
    /\ pc' = 1
    /\ until' = u
    /\ ret' = Ret("run", "-", "-", "ok")
    /\ UNCHANGED <<script, table>>
    /\ UnchangedEntities /\ UnchangedQueue

\* one round of the loop: a step
run_step ==
    /\ pc = 1
    /\ ~StepRaised
    /\ RunCondition
    /\ dispatch_next_event

\* the loop ends: run returns
run_return ==
    /\ pc = 1
    /\ ~StepRaised
    /\ ~RunCondition
    /\ pc' = 2
    /\ ret' = Ret("run", "-", "-", "ok")
    /\ UNCHANGED <<script, table, until>>
    /\ UnchangedEntities /\ UnchangedQueue

\* a handler raised: run passes the exception on
run_raise ==
    /\ pc = 1
    /\ StepRaised
    /\ pc' = 3
    /\ ret' = Ret("run", "-", "-", ret.exc)
    /\ UNCHANGED <<script, table, until>>
    /\ UnchangedEntities /\ UnchangedQueue

\* add_event before run is called
schedule(time, event_type, agent) ==
    /\ pc = 0
    /\ add_event(time, event_type, agent)

\* the two agents at C, nothing scheduled yet
InitRun ==
    /\ \E infected \in {"S", "I"} :
         /\ agents = Cohabitants(infected).agents
         /\ locations = Cohabitants(infected).locations
    /\ t = 0
    /\ event_queue = <<>>
    /\ event_map = NoEvents
    /\ move_probs = new_child(EmptyChain, MoveProbsFixture)
    /\ ret = Ret("init", "-", "-", "ok")
    /\ script = <<>>
    /\ pc = 0
    /\ dispatched = <<>>
    /\ table = <<>>
    /\ until = <<>>

NextRun ==
    \/ \E time \in Times, et \in EventTypes, a \in EventAgents :
         schedule(time, et, a)
    \/ \E u \in Untils : run_call(u)
    \/ run_step
    \/ run_return
    \/ run_raise

\* run is ordinary synchronous code: once called, the loop goes on until
\* it returns or raises
SpecRun ==
    /\ InitRun
    /\ [][NextRun]_vars
    /\ WF_vars(run_step) /\ WF_vars(run_return) /\ WF_vars(run_raise)

(* ------------------------- infection attempts -------------------------- *)

\* harold and victim of the tests and a third agent
InfectAgents == AgentIds \cup {"bystander"}

\* a call of ABM.do_potential_infect
DoPotentialInfect(agent) ==
    /\ \E r \in do_potential_infect(agents, locations, agent) :
         /\ agents' = r.agents
         /\ locations' = r.locations
         /\ ret' = Ret("do_potential_infect", agent, "-", r.exc)
    /\ UNCHANGED move_probs
    /\ UnchangedQueue /\ UnchangedScript

\* harold (maxhist 2) infected 'I', victim (maxhist 1) infected 'S' and a
\* third agent that keeps Agent's default (False), none placed yet
InitInfect ==
    /\ agents = ("Harold" :> [MemoryAgent(<<2>>) EXCEPT !.infected = "I"]) @@
                ("victim" :> [MemoryAgent(<<1>>) EXCEPT !.infected = "S"]) @@
                ("bystander" :> MemoryAgent(<<1>>))
    /\ locations = [l \in EntityLocs |-> Location]
    /\ t = 0
    /\ event_queue = <<>>
    /\ event_map = NoEvents
    /\ move_probs = EmptyChain
    /\ ret = Ret("init", "-", "-", "ok")
    /\ script = <<>>
    /\ pc = 0
    /\ dispatched = <<>>
    /\ table = <<>>
    /\ until = <<>>

NextInfect ==
    \/ \E a \in InfectAgents, l \in EntityLocs : Move(a, l)
    \/ \E a \in InfectAgents : DoPotentialInfect(a)

SpecInfect == InitInfect /\ [][NextInfect]_vars

(* ------------------------- a walk over the tables ---------------------- *)

\* a call of ModelState.move to a location other than the agent's own
MoveElsewhere(agent) ==
    \E l \in LocIds :
        /\ l # agents[agent].location
        /\ Move(agent, l)

\* the abm fixture (harold at A with history [A], the tables in one layer);
\* harold moves by do_next_move, by Move events and by moves elsewhere
NextWalk ==
    \/ DoNextMove("Harold")
    \/ \E time \in Times : add_event(time, "Move", "Harold")
    \/ handle_next_event
    \/ MoveElsewhere("Harold")

SpecWalk == InitQueue /\ [][NextWalk]_vars

(* --------------------- one outcome map, sampled ------------------------ *)

\* the outcome maps over the locations with whole weights up to MaxWeight:
\* a dict holds each outcome once
Tables ==
    {d \in UNION {[1..n -> LocIds \X (0..MaxWeight)] :
                    n \in 0..Cardinality(LocIds)} :
        \A i, j \in 1..Len(d) : i # j => d[i][1] # d[j][1]}

\* a call of MarkovMover.add_move_probs({harold.state: d})
AddTable(d) ==
    /\ pc = 0
    /\ table' = d
    /\ move_probs' = new_child(move_probs, (state(agents["Harold"]) :> d))
    /\ ret' = Ret("add_move_probs", "-", "-", "ok")
    /\ pc' = 1
    /\ UNCHANGED <<agents, locations, script, until>>
    /\ UnchangedQueue

\* a call of MarkovMover.next_location(harold.state) once the map is added
Sample ==
    /\ pc = 1
    /\ NextLocation("Harold")

\* harold of the fixtures at A (state ('S', 'A')) and a MarkovMover() that
\* has no move probabilities yet
InitSampler ==
    /\ LET ags == ("Harold" :> [MemoryAgent(<<2>>) EXCEPT !.infected = "S"])
           r == move(ags, [l \in LocIds |-> Location], "Harold", "A")
       IN  agents = r.agents /\ locations = r.locations
    /\ t = 0
    /\ event_queue = <<>>
    /\ event_map = NoEvents
    /\ move_probs = EmptyChain
    /\ ret = Ret("init", "-", "-", "ok")
    /\ script = <<>>
    /\ pc = 0
    /\ dispatched = <<>>
    /\ table = <<>>
    /\ until = <<>>

NextSampler ==
    \/ \E d \in Tables : AddTable(d)
    \/ Sample

SpecSampler == InitSampler /\ [][NextSampler]_vars

(* ======================= properties: entities ========================= *)

\* C1: in every state reached by add_agent, add_location and move, an
\* agent id is in a location's occupants iff that location is the agent's
\* location.
C1_OccupantsMirrorLocation ==
    \A a \in DOMAIN agents, l \in DOMAIN locations :
        (a \in locations[l]) <=> (agents[a].location = l)

\* C2 as claimed: after a successful move(agent, loc) the destination's
\* occupants hold the agent and, if the agent had a prior location, that
\* location's occupants no longer hold it.
C2_MoveInvariantAsClaimed ==
    [][(ret'.op = "move" /\ ret'.exc = "ok") =>
          LET a == ret'.agent
              loc == ret'.arg
              prior == agents[a].location
          IN  /\ a \in locations'[loc]
              /\ prior # None => a \notin locations'[prior]]_vars

\* C2: after a successful move(agent, loc) the destination's occupants hold
\* the agent and, if the agent had a prior location other than loc, that
\* location's occupants no longer hold it.
C2_MoveInvariant ==
    [][(ret'.op = "move" /\ ret'.exc = "ok") =>
          LET a == ret'.agent
              loc == ret'.arg
              prior == agents[a].location
          IN  /\ a \in locations'[loc]
              /\ (prior # None /\ prior # loc) => a \notin locations'[prior]]_vars

\* an agent that was at A has just been moved to B
C2_MovedAway ==
    \E a \in DOMAIN agents :
        /\ ret = Ret("move", a, "B", "ok")
        /\ agents[a].history.items = <<"A", "B">>
        /\ a \in locations["B"]
        /\ a \notin locations["A"]

(* ======================== properties: history ========================= *)

\* how many of the pc moves made so far a history of this maxlen keeps
Kept(maxlen) ==
    IF maxlen = <<>> \/ pc < maxlen[1] THEN pc ELSE maxlen[1]

\* C9: the context key is the infection state followed by the history,
\* most recent first; with maxhist 2 and state 'S', after the moves
\* C, C, A, B the key is ('S', 'B', 'A') and the distribution used is the
\* one of the entry ('S', 'B', 'A'): A with weight 0.2, C with 0.8.
C9_ContextKey ==
    LET harold == agents["Harold"]
        n == Kept(harold.history.maxlen)
        key == state(harold)
    IN  /\ Len(key) = n + 1
        /\ key[1] = harold.infected
        /\ \A i \in 1..n : key[i + 1] = script[pc + 1 - i]
        /\ (script = <<"C", "C", "A", "B">> /\ pc = 4
               /\ harold.history.maxlen = <<2>>) =>
              /\ key = <<"S", "B", "A">>
              /\ chain_get(move_probs, key) =
                   [found |-> TRUE,
                    value |-> [outcomes |-> <<"A", "C">>, cdf |-> <<2, 10>>,
                               total |-> 10]]
              /\ ret.op = "next_location" =>
                   ret.exc = "ok" /\ ret.arg \in {"A", "C"}

\* after the moves C, C, A, B, next_location has drawn C
C9_AfterCCAB ==
    /\ script = <<"C", "C", "A", "B">>
    /\ pc = 4
    /\ agents["Harold"].history.maxlen = <<2>>
    /\ ret = Ret("next_location", "Harold", "C", "ok")

\* C10: after pc moves the history of an agent created with maximum m
\* holds the destinations of the last min(pc, m) moves, most recent last
\* (of all pc moves when there is no maximum), and its last entry is the
\* agent's location.
C10_HistoryBounded ==
    LET harold == agents["Harold"]
        h == harold.history.items
        n == Kept(harold.history.maxlen)
    IN  /\ Len(h) = n
        /\ \A i \in 1..n : h[i] = script[pc - n + i]
        /\ pc > 0 => (h # <<>> /\ h[Len(h)] = harold.location)

\* four moves into a history of at most two: the two oldest are gone
C10_Evicted ==
    /\ pc = 4
    /\ script = <<"C", "B", "A", "B">>
    /\ agents["Harold"].history = [items |-> <<"A", "B">>, maxlen |-> <<2>>]

(* ========================= properties: queue ========================== *)

BagOfQueue(q) == [e \in {q[i] : i \in 1..Len(q)} |->
                    Cardinality({i \in 1..Len(q) : q[i] = e})]

FrontIsMinimum(q) == \A i \in 1..Len(q) : q[1].t <= q[i].t

\* C3: every add_event puts its event in the queue and takes nothing out,
\* the front of the queue is a minimum by time of the pending events, and
\* it is the front that a pop removes; adding (t=1, Move) then
\* (t=0.5, Infect) leaves the Infect event first and the Move event second.
C3_FrontIsMinimum ==
    [][/\ FrontIsMinimum(event_queue')
       /\ ret'.op = "add_event" =>
            BagOfQueue(event_queue') =
              BagOfQueue(event_queue)
                (+) SetToBag({Event(ret'.time, ret'.arg, ret'.agent)})
       /\ (ret'.op = "handle_next_event" /\ ret'.exc # "IndexError") =>
            /\ dispatched'[Len(dispatched')] = event_queue[1]
            /\ BagOfQueue(event_queue') (+) SetToBag({event_queue[1]}) =
                 BagOfQueue(event_queue)
       /\ BagOfQueue(event_queue') =
            SetToBag({Event(2, "Move", "Harold"), Event(1, "Infect", "Harold")})
          => event_queue' =
               <<Event(1, "Infect", "Harold"), Event(2, "Move", "Harold")>>]_vars

\* (t=1, Move) was added first, (t=0.5, Infect) second
C3_InfectOvertakesMove ==
    /\ ret = [Ret("add_event", "Harold", "Infect", "ok") EXCEPT !.time = 1]
    /\ event_queue = <<Event(1, "Infect", "Harold"), Event(2, "Move", "Harold")>>
    /\ t = 0

\* C4: the events dispatched since the queue was last added to are in
\* non-decreasing time order.
C4_DispatchOrder ==
    \A i \in 1..Len(dispatched) : \A j \in i..Len(dispatched) :
        dispatched[i].t <= dispatched[j].t

\* two events at different times were dispatched one after the other
C4_TwoDispatched ==
    /\ Len(dispatched) >= 2
    /\ dispatched[1].t < dispatched[2].t
    /\ ret.op = "handle_next_event"

\* C5: no operation makes t smaller, and only a step changes t.
C5_TimeNeverRegresses ==
    [][/\ t' >= t
       /\ t' # t => ret'.op = "handle_next_event"]_vars

ContextKeys ==
    UNION {DOMAIN Layers[name] : name \in LayerNames}
      \cup {<<"S">>, <<"S", "C">>, <<"S", "A", "C">>}

NotFound == [found |-> FALSE, value |-> NoOutcomes]

\* C7: the lookup of a key gives the sampler of the most recently added
\* map that holds exactly that key; add_move_probs changes the lookup of
\* the keys of its map to the samplers compiled from it, and leaves the
\* lookup of every other key as it was.
C7_NewestLayerWins ==
    [][/\ \A key \in ContextKeys :
            LET has == {i \in 1..Len(move_probs') : key \in DOMAIN move_probs'[i]}
            IN  chain_get(move_probs', key) =
                  IF has = {} THEN NotFound
                  ELSE [found |-> TRUE,
                        value |-> move_probs'[CHOOSE i \in has :
                                               \A j \in has : i <= j][key]]
       /\ ret'.op = "add_move_probs" =>
            /\ Len(move_probs') = Len(move_probs) + 1
            /\ \A i \in 1..Len(move_probs) : move_probs'[i + 1] = move_probs[i]
            /\ \A key \in ContextKeys :
                 chain_get(move_probs', key) =
                   IF key \in DOMAIN Layers[ret'.arg]
                   THEN [found |-> TRUE,
                         value |-> CompiledOutcomes(Layers[ret'.arg][key])]
                   ELSE chain_get(move_probs, key)]_vars

\* ('S', 'A') is defined by the first map added and again by the second,
\* ('S', 'B') by the first only
C7_Overridden ==
    /\ ret = Ret("add_move_probs", "-", "again", "ok")
    /\ Len(move_probs) = 3
    /\ DOMAIN move_probs[2] = DOMAIN Layers["hist1"]
    /\ chain_get(move_probs, <<"S", "A">>).value.cdf = <<5, 10>>
    /\ chain_get(move_probs, <<"S", "B">>).value.cdf = <<4, 10>>

NoLayerHolds(key) == \A i \in 1..Len(move_probs) : key \notin DOMAIN move_probs[i]

\* C8: when no map of the chain holds the agent's exact key, do_next_move
\* raises the lookup's KeyError and moves nothing: the agents and the
\* locations are as before the call.
C8_NoTransitionNoMove ==
    [][(ret'.op = "do_next_move"
          /\ NoLayerHolds(state(agents[ret'.agent]))) =>
         /\ ret'.exc = "KeyError"
         /\ agents' = agents
         /\ locations' = locations
         /\ UNCHANGED <<t, event_queue, event_map, move_probs>>]_vars

\* do_next_move has failed although a map holds a proper prefix of the key
C8_PrefixDefinedOnly ==
    /\ ret = Ret("do_next_move", "Harold", "-", "KeyError")
    /\ state(agents["Harold"]) = <<"S", "A", "C">>
    /\ \E i \in 1..Len(move_probs) : <<"S", "A">> \in DOMAIN move_probs[i]
    /\ agents["Harold"].location = "A"

\* C13: move with an agent id or a location id that is not known fails
\* (KeyError) and leaves the whole state unchanged: locations, occupants,
\* histories, queue and clock.
C13_UnknownIdNoChange ==
    [][(ret'.op = "move" /\ (\/ ret'.agent \notin DOMAIN agents
                             \/ ret'.arg \notin DOMAIN locations)) =>
          /\ ret'.exc = "KeyError"
          /\ UNCHANGED <<agents, locations, t, event_queue, event_map,
                         move_probs>>]_vars

\* harold, placed at A, was asked to move to B, which is not a location
C13_PlacedAgentUnknownLocation ==
    /\ ret = Ret("move", "Harold", "B", "KeyError")
    /\ "Harold" \in DOMAIN agents
    /\ agents["Harold"].location = "A"
    /\ "Harold" \in locations["A"]
    /\ "B" \notin DOMAIN locations

\* C15: handle_next_event (the pop) on an empty queue fails (IndexError)
\* and leaves t, the queue, the agents and the locations as they were.
C15_EmptyPopNoChange ==
    [][(event_queue = <<>> /\ ret'.op = "handle_next_event") =>
          /\ ret'.exc = "IndexError"
          /\ UNCHANGED <<t, event_queue, event_map, agents, locations,
                         move_probs>>]_vars

\* the queue was drained to time 2 and then popped once more
C15_PoppedAfterDrain ==
    /\ ret = Ret("handle_next_event", "-", "-", "IndexError")
    /\ event_queue = <<>>
    /\ t = 2
    /\ Len(dispatched) = 2

\* C19: event_map[a] is exactly the set of the events pending in the queue
\* for agent a, and has as many members as the queue has events for a,
\* also when an equal event is scheduled more than once.
C19_IndexIsPending ==
    \A a \in AgentIds :
        LET pending == {i \in 1..Len(event_queue) : event_queue[i].agent = a}
            index == IF a \in DOMAIN event_map THEN event_map[a] ELSE {}
        IN  /\ index = {event_queue[i] : i \in pending}
            /\ Cardinality(index) = Cardinality(pending)

\* C22: with the tables of the fixture in one layer, harold ('S', maxhist
\* 2, placed at A with history [A]) never lacks a context key in
\* do_next_move, called directly or by a Move event, also after moves to
\* another location, and do_next_move always takes it to a location other
\* than the one it is at.
C22_NeverDwells ==
    [][(\/ ret'.op = "do_next_move"
        \/ (ret'.op = "handle_next_event" /\ ret'.arg = "Move")) =>
          /\ ret'.exc = "ok"
          /\ agents'["Harold"].location \in LocIds
          /\ agents'["Harold"].location # agents["Harold"].location
          /\ agents'["Harold"].history.items =
                <<agents["Harold"].location, agents'["Harold"].location>>]_vars

\* do_next_move took harold back to A, where it was before B
C22_BackToA ==
    /\ ret = Ret("do_next_move", "Harold", "-", "ok")
    /\ agents["Harold"].history.items = <<"B", "A">>
    /\ agents["Harold"].location = "A"
    /\ locations["A"] = {"Harold"}

(* ========================= properties: step ========================== *)

\* C16: one step on a non-empty queue removes exactly one event, a minimum
\* one, sets t to its time and applies the handler of its type to its
\* agent: a Move event performs do_next_move and changes no infection
\* state, an Infect event performs do_potential_infect and changes no
\* agent's location.
C16_StepDispatchesMinimum ==
    [][(event_queue # <<>> /\ ret'.op = "handle_next_event") =>
          LET e == event_queue[1]
              after == [agents |-> agents', locations |-> locations',
                        exc |-> ret'.exc]
          IN  /\ \A i \in 1..Len(event_queue) : ~Event_lt(event_queue[i], e)
              /\ Len(event_queue') = Len(event_queue) - 1
              /\ BagOfQueue(event_queue') (+) SetToBag({e})
                     = BagOfQueue(event_queue)
              /\ t' = e.t
              /\ ret'.agent = e.agent /\ ret'.arg = e.event_type
              /\ e.event_type = "Move" =>
                    /\ after \in do_next_move(agents, locations, move_probs,
                                               e.agent)
                    /\ \A a \in DOMAIN agents :
                         agents'[a].infected = agents[a].infected
              /\ e.event_type = "Infect" =>
                    /\ after \in do_potential_infect(agents, locations,
                                                      e.agent)
                    /\ locations' = locations
                    /\ \A a \in DOMAIN agents :
                         /\ agents'[a].location = agents[a].location
                         /\ agents'[a].history = agents[a].history]_vars

\* an Infect event on harold was dispatched, then a Move event on harold,
\* with an event still queued: victim is infected, harold has left C
C16_InfectThenMove ==
    /\ Len(dispatched) = 2
    /\ dispatched[1].event_type = "Infect" /\ dispatched[1].agent = "Harold"
    /\ dispatched[2].event_type = "Move" /\ dispatched[2].agent = "Harold"
    /\ ret.op = "handle_next_event" /\ ret.exc = "ok"
    /\ agents["victim"].infected = "I"
    /\ agents["Harold"].location # "C"
    /\ agents["victim"].location = "C"
    /\ event_queue # <<>>

\* C14: run(until) ends for every scheduled queue, the empty one included:
\* it returns unless a handler raised, and when it has returned the queue
\* is empty or until is set and t >= until.
C14_RunTerminates ==
    /\ (pc = 1) ~> (pc \in {2, 3})
    /\ [][pc' = 3 => StepRaised]_vars
    /\ [](pc = 2 => \/ event_queue = <<>>
                     \/ (IF until = <<>> THEN FALSE ELSE t >= until[1]))

\* run(until=1.0) returned at t = 1.0 with an event still queued
C14_Halted ==
    /\ pc = 2
    /\ until = <<2>>
    /\ t = 2
    /\ Len(dispatched) = 2
    /\ event_queue # <<>>

(* ======================= properties: infection ======================== *)

\* the occupants of the location of a placed agent, {} for an unplaced one
Cohabiting(a) ==
    IF agents[a].location \in DOMAIN locations
    THEN locations[agents[a].location] ELSE {}

\* C17: when exactly two agents occupy a location, one infected ('I') and
\* the other susceptible ('S'), one do_potential_infect on the infected
\* one leaves the other infected, whichever order they are sampled in;
\* both keep their location.
C17_PairAlwaysInfects ==
    [][\A s, o \in DOMAIN agents :
         (/\ ret'.op = "do_potential_infect" /\ ret'.agent = s
          /\ Cohabiting(s) = {s, o} /\ s # o
          /\ agents[s].infected = "I" /\ agents[o].infected = "S") =>
            /\ ret'.exc = "ok"
            /\ agents'[o].infected = "I"
            /\ agents'[s].location = agents[s].location
            /\ agents'[o].location = agents[o].location
            /\ locations' = locations]_vars

\* do_potential_infect on harold, alone at A with victim: victim is 'I'
C17_VictimInfected ==
    /\ ret = Ret("do_potential_infect", "Harold", "-", "ok")
    /\ locations["A"] = {"Harold", "victim"}
    /\ agents["Harold"].infected = "I"
    /\ agents["victim"].infected = "I"

\* C18: do_potential_infect(source) changes nothing but, possibly, the
\* infected state of one occupant of the source's location other than the
\* source, from 'S' to 'I': never the source, never an agent that is not
\* 'S', no location, occupant set, history, queue or t; and nothing at all
\* when the source's location has fewer than two occupants.
C18_InfectFrame ==
    [][ret'.op = "do_potential_infect" =>
          LET s == ret'.agent
              changed == {a \in DOMAIN agents : agents'[a] # agents[a]}
          IN  /\ DOMAIN agents' = DOMAIN agents
              /\ UNCHANGED <<locations, t, event_queue, event_map,
                             move_probs>>
              /\ Cardinality(changed) <= 1
              /\ \A a \in changed :
                   /\ a # s
                   /\ a \in Cohabiting(s)
                   /\ agents[a].infected = "S"
                   /\ agents'[a] = [agents[a] EXCEPT !.infected = "I"]
              /\ Cardinality(Cohabiting(s)) < 2 => changed = {}
              /\ Cardinality(Cohabiting(s)) = 1 => ret'.exc = "ok"]_vars

\* do_potential_infect on the third agent with all three at A, after
\* victim was infected: the third agent is as it was created
C18_ThreeTogether ==
    /\ ret = Ret("do_potential_infect", "bystander", "-", "ok")
    /\ locations["A"] = InfectAgents
    /\ agents["victim"].infected = "I"
    /\ agents["bystander"].infected = "False"

\* C21: the items of the HeapList read through indexing are in ascending
\* order: queue[i] is the (i+1)-th smallest pending event for every i.
C21_QueueSorted ==
    \A i \in 1..(Len(event_queue) - 1) :
        ~Event_lt(event_queue[i + 1], event_queue[i])

(* ======================== properties: sampler ========================= *)

\* the sum of the weights of an outcome map
RECURSIVE SumWeights(_)
SumWeights(d) == IF d = <<>> THEN 0 ELSE Head(d)[2] + SumWeights(Tail(d))

\* the compiled outcomes next_location looks up for harold
Compiled == chain_get(move_probs, state(agents["Harold"])).value

\* C11: a sampler built from non-negative weights with a positive total
\* never returns an outcome of weight 0, wherever the zero weights stand
\* and whatever value of [0, total) is drawn, 0 included; the selected
\* index is in range.
C11_NeverZeroWeight ==
    (ret.op = "next_location" /\ SumWeights(table) > 0) =>
        /\ ret.exc = "ok"
        /\ \E i \in 1..Len(table) :
             table[i][1] = ret.arg /\ table[i][2] > 0

\* a sample from a map whose first and last weights are 0: the draw is 0
C11_ZeroWeightsAround ==
    /\ table = << <<"A", 0>>, <<"B", 1>>, <<"C", 0>> >>
    /\ ret = Ret("next_location", "Harold", "B", "ok")

\* C12: adding a map whose weights sum to a non-positive total (an empty
\* map, or all weights 0) fails when the map is added, so no sample is
\* reached with a non-positive total.
C12_NonPositiveTotalRejected ==
    /\ (ret.op = "add_move_probs" /\ SumWeights(table) <= 0) =>
           ret.exc # "ok"
    /\ ret.op = "next_location" => SumWeights(table) > 0

\* C20: with whole weights, exactly weight[k] of the whole draws of
\* [0, total) select outcome k; cdf is non-decreasing and its last entry
\* is total, the sum of the weights.
C20_DrawsProportional ==
    pc = 1 =>
        LET c == Compiled
        IN  /\ Len(c.cdf) = Len(table) /\ Len(c.outcomes) = Len(table)
            /\ \A i \in 1..(Len(c.cdf) - 1) : c.cdf[i] <= c.cdf[i + 1]
            /\ c.total = SumWeights(table)
            /\ c.cdf # <<>> => c.cdf[Len(c.cdf)] = c.total
            /\ \A k \in 1..Len(table) :
                 /\ c.outcomes[k] = table[k][1]
                 /\ Cardinality({x \in 0..(c.total - 1) :
                                   bisect(c.cdf, x) + 1 = k}) = table[k][2]

\* a sample from the map with weights 2, 0, 1 (cdf 2, 2, 3) returned C
C20_SampledUneven ==
    /\ table = << <<"A", 2>>, <<"B", 0>>, <<"C", 1>> >>
    /\ Compiled.cdf = <<2, 2, 3>>
    /\ ret = Ret("next_location", "Harold", "C", "ok")

====
